---- MODULE Spec2Model ----
(***************************************************************************)
(* Model of the reconciliation engine of src/merge.py: the diarization     *)
(* normalizer, the segment aligner, the speaker-turn merger, the overlap   *)
(* detector and the orchestrator that composes them; and of the server     *)
(* start-up of src/ai/main.py, ensure_whisper_server.                      *)
(*                                                                         *)
(* Times are integers counting tenths of a second, so the default          *)
(* gap_threshold 0.5 is 5 and the default min_duration 0.1 is 1.  A        *)
(* confidence is a fraction <<numerator, denominator>>, exact where the    *)
(* code rounds to a double; a denominator of 0 stands for the              *)
(* ZeroDivisionError Python raises on that division.                       *)
(* A tokens list is a mutable Python list: a segment holds a reference     *)
(* into the heap of lists, and a shallow dict copy shares that reference.  *)
(* The uninterpreted passthrough scores avg_logprob and no_speech_prob     *)
(* are left out of the segment records.                                    *)
(* A diarization turn is a mutable dict as well: the normalizer carries    *)
(* the caller's list along with the identity of its accumulator.           *)
(***************************************************************************)
EXTENDS Integers, Sequences, FiniteSets, TLC

VARIABLES
    pc,               \* "call" before the function under study runs, "done" after
    diarization,      \* the caller's diarization turn list
    gap_threshold,    \* argument of merge_nearby_diarization
    normalized,       \* return value of merge_nearby_diarization
    runs,             \* history: how many input turns each returned turn folded
    whisper_segments, \* the caller's transcript segments
    heap0,            \* contents of the tokens lists when the call starts
    heap,             \* contents of the tokens lists now
    aligned,          \* return value of align_whisper_segments_with_speakers
    error,            \* "none", or the exception the call raised
    segments,         \* the aligned segments handed to the turn merger
    turns,            \* return value of merge_consecutive_speaker_segments
    transcription,    \* the transcript object handed to process_transcription
    merge_speakers,   \* argument of process_transcription
    result,           \* return value of process_transcription
    diarization_after,\* the caller's diarization turn list once the call is over
    min_duration_arg, \* argument min_duration of find_overlaps
    overlap_regions,  \* return value of find_overlaps
    plain,            \* outcome of the same call with merge_speakers = False
    server_pc,        \* position in ensure_whisper_server
    port,             \* argument of ensure_whisper_server
    attempt,          \* loop variable i of ensure_whisper_server
    polls,            \* history: polls made by the loop of ensure_whisper_server
    slept,            \* history: seconds spent in time.sleep
    message           \* the last line ensure_whisper_server printed

\* the state of ensure_whisper_server
serverVars == <<server_pc, port, attempt, polls, slept, message>>

vars == <<pc, diarization, gap_threshold, normalized, runs, whisper_segments,
          heap0, heap, aligned, error, segments, turns, transcription, merge_speakers,
          result, diarization_after, min_duration_arg, overlap_regions, plain, serverVars>>

----------------------------------------------------------------------------
(* Bounds of the model *)

NormMaxTime == 3
NormMaxTurns == 3
MaxGap == 2
MaxTime == 1
MaxTurns == 2
MaxSegs == 2
MergeMaxSegs == 3
TimeStep == 5
ModesMaxTime == 3
ModesMaxTurns == 2
ModesMaxSegs == 3

(* Program constants, in tenths of a second *)
GAP_THRESHOLD_DEFAULT == 5
MIN_DURATION_DEFAULT == 1

(* Program constants of ensure_whisper_server: range(10) and time.sleep(1) *)
RANGE == 10
SLEEP_SECONDS == 1

Speakers == {"SPEAKER_00", "SPEAKER_01"}
UNKNOWN == "unknown"
Words == <<"hello", "world", "again", "then">>

----------------------------------------------------------------------------
(* Generic helpers *)

Max(a, b) == IF a >= b THEN a ELSE b
Min(a, b) == IF a <= b THEN a ELSE b

RECURSIVE GCD(_, _)
GCD(a, b) == IF b = 0 THEN a ELSE GCD(b, a % b)

\* a fraction with a positive denominator, in lowest terms: the same number
Reduced(f) == LET g == GCD(f[1], f[2]) IN <<f[1] \div g, f[2] \div g>>

Intervals(T) == {iv \in T \X T : iv[1] <= iv[2]}

TurnSet(T) ==
    {[start |-> iv[1], end |-> iv[2], speaker |-> s] : iv \in Intervals(T), s \in Speakers}

SeqsUpTo(S, n) == UNION {[1..k -> S] : k \in 0..n}

SortedByStart(d) == \A i \in 1..(Len(d) - 1) : d[i].start <= d[i + 1].start

\* The diarization provider sorts its turns by start time (src/diarize.py:64).
DiarizationInputs(T, n) == {d \in SeqsUpTo(TurnSet(T), n) : SortedByStart(d)}

----------------------------------------------------------------------------
(* merge_nearby_diarization, src/merge.py:5-26 *)

\* a fold condition that measures the gap from the accumulator's start
NearbyShouldFoldFromStart(current, segment, gap) ==
    /\ segment.speaker = current.speaker
    /\ segment.start - current.start < gap

\* line 16-19: the fold condition, on the accumulator and the next turn
NearbyShouldFold(current, segment, gap) ==
    /\ segment.speaker = current.speaker
    /\ segment.start - current["end"] < gap

\* a fold that keeps the larger end
NearbyFoldEndMax(current, segment) == Max(current["end"], segment["end"])

\* line 20: the accumulator's end after a fold
NearbyFoldEnd(current, segment) == segment["end"]

\* a new accumulator that begins where the previous one ended
NewCurrentFromEnd(current, segment) == [segment EXCEPT !.start = current["end"]]

\* line 23: the accumulator after a turn that is not folded
NewCurrent(current, segment) == segment

\* an accumulator that is the input turn itself
NoCopy(k) == k

\* line 13, 23: dict.copy() makes a new dict, which is none of the input turns.
\* The result names the input turn the accumulator is the same object as, 0
\* for none.
Copy(k) == 0

\* line 15-23: one iteration of the loop, on the k-th turn of the caller's list.
\* st.n counts the input turns folded into the accumulator; st.runs records
\* that count for every emitted turn; st.input is the caller's list, which a
\* write to the accumulator changes when the accumulator is one of its turns.
NearbyStep(st, k, gap) ==
    LET segment == st.input[k]
    IN  IF NearbyShouldFold(st.current, segment, gap)
        THEN LET new_end == NearbyFoldEnd(st.current, segment)
             IN  [st EXCEPT !.current = [@ EXCEPT !["end"] = new_end],
                            !.n = @ + 1,
                            !.input = IF st.alias = 0 THEN @
                                      ELSE [@ EXCEPT ![st.alias]["end"] = new_end]]
        ELSE [current |-> NewCurrent(st.current, segment),
              alias   |-> Copy(k),
              n       |-> 1,
              merged  |-> Append(st.merged, st.current),
              runs    |-> Append(st.runs, st.n),
              input   |-> st.input]

RECURSIVE NearbyLoop(_, _, _)
NearbyLoop(st, k, gap) ==
    IF k > Len(st.input) THEN st
    ELSE NearbyLoop(NearbyStep(st, k, gap), k + 1, gap)

\* line 9-26: the whole function, with the history of run lengths and the
\* caller's list as the call leaves it
NearbyRun(d, gap) ==
    IF d = <<>> THEN [merged |-> <<>>, runs |-> <<>>, input |-> d]
    ELSE LET st == NearbyLoop([current |-> d[1], alias |-> Copy(1), n |-> 1,
                               merged |-> <<>>, runs |-> <<>>, input |-> d],
                              2, gap)
         IN  [merged |-> Append(st.merged, st.current),
              runs   |-> Append(st.runs, st.n),
              input  |-> st.input]

merge_nearby_diarization(d, gap) == NearbyRun(d, gap).merged

----------------------------------------------------------------------------
(* Specification of the normalizer alone *)

NoValue == <<>>

\* ensure_whisper_server has not been called
ServerIdle ==
    /\ server_pc = "idle"
    /\ port = 0
    /\ attempt = 0
    /\ polls = 0
    /\ slept = 0
    /\ message = ""

InitNormalize ==
    /\ pc = "call"
    /\ diarization \in DiarizationInputs(0..NormMaxTime, NormMaxTurns)
    /\ gap_threshold \in 1..MaxGap
    /\ normalized = NoValue
    /\ runs = NoValue
    /\ whisper_segments = NoValue
    /\ heap0 = NoValue
    /\ heap = NoValue
    /\ aligned = NoValue
    /\ error = "none"
    /\ segments = NoValue
    /\ turns = NoValue
    /\ transcription = NoValue
    /\ merge_speakers = FALSE
    /\ result = NoValue
    /\ diarization_after = NoValue
    /\ min_duration_arg = MIN_DURATION_DEFAULT
    /\ overlap_regions = NoValue
    /\ plain = NoValue
    /\ ServerIdle

CallMergeNearby ==
    /\ pc = "call"
    /\ pc' = "done"
    /\ normalized' = merge_nearby_diarization(diarization, gap_threshold)
    /\ runs' = NearbyRun(diarization, gap_threshold).runs
    /\ diarization_after' = NearbyRun(diarization, gap_threshold).input
    /\ UNCHANGED <<diarization, gap_threshold, whisper_segments, heap0, heap, aligned,
                   error, segments, turns, transcription, merge_speakers, result,
                   min_duration_arg, overlap_regions, plain>>
    /\ UNCHANGED serverVars

NextNormalize == CallMergeNearby

SpecNormalize == InitNormalize /\ [][NextNormalize]_vars

----------------------------------------------------------------------------
(* align_whisper_segments_with_speakers, src/merge.py:29-70 *)

\* A Python dict keeps its keys in insertion order: speaker_times is the
\* sequence of its items, [speaker, time], in that order.
DictHas(d, k) == \E i \in 1..Len(d) : d[i].speaker = k

DictGet(d, k, default) ==
    IF DictHas(d, k)
    THEN d[CHOOSE i \in 1..Len(d) : d[i].speaker = k].time
    ELSE default

DictSet(d, k, v) ==
    IF DictHas(d, k)
    THEN [i \in 1..Len(d) |-> IF d[i].speaker = k THEN [d[i] EXCEPT !.time = v] ELSE d[i]]
    ELSE Append(d, [speaker |-> k, time |-> v])

\* line 40-42
Overlap(seg, d_seg) ==
    LET overlap_start == Max(seg.start, d_seg.start)
        overlap_end   == Min(seg["end"], d_seg["end"])
    IN  Max(0, overlap_end - overlap_start)

\* an overlap test that lets a zero overlap through
PositiveOverlapOrZero(overlap) == overlap >= 0

\* line 44
PositiveOverlap(overlap) == overlap > 0

\* an accumulation that keeps only the last overlap of a speaker
AccumulateLast(sofar, overlap) == overlap

\* line 46: the new total of a speaker
Accumulate(sofar, overlap) == sofar + overlap

\* line 39-46: the loop over the diarization turns
RECURSIVE SpeakerTimes(_, _, _)
SpeakerTimes(seg, rest, speaker_times) ==
    IF rest = <<>> THEN speaker_times
    ELSE LET d_seg   == Head(rest)
             overlap == Overlap(seg, d_seg)
         IN  SpeakerTimes(seg, Tail(rest),
                 IF PositiveOverlap(overlap)
                 THEN DictSet(speaker_times, d_seg.speaker,
                              Accumulate(DictGet(speaker_times, d_seg.speaker, 0), overlap))
                 ELSE speaker_times)

\* a scan that lets a later key with an equal value replace the candidate
ReplacesOnTie(time, best_time) == time >= best_time

\* line 50: max() replaces its candidate only by a strictly larger value
Replaces(time, best_time) == time > best_time

\* line 50: max(speaker_times, key=speaker_times.get) scans the keys in
\* insertion order.
RECURSIVE MaxKey(_, _, _)
MaxKey(d, i, best) ==
    IF i > Len(d) THEN d[best].speaker
    ELSE MaxKey(d, i + 1, IF Replaces(d[i].time, d[best].time) THEN i ELSE best)

\* line 51: the float division; a zero denominator is the ZeroDivisionError
Divide(a, b) == <<a, b>>

\* a placeholder attribution that claims full confidence
ONE == <<1, 1>>

ZERO == <<0, 1>>

\* line 36-68: the body of the loop over the transcript segments
AlignOne(seg, d) ==
    LET seg_duration  == seg["end"] - seg.start
        speaker_times == SpeakerTimes(seg, d, <<>>)
        best_speaker  == IF speaker_times # <<>> THEN MaxKey(speaker_times, 2, 1) ELSE UNKNOWN
        confidence    == IF speaker_times # <<>>
                         THEN Divide(DictGet(speaker_times, best_speaker, 0), seg_duration)
                         ELSE ZERO
    IN  [id         |-> seg.id,
         speaker    |-> best_speaker,
         start      |-> seg.start,
         end        |-> seg["end"],
         text       |-> seg.text,
         tokens     |-> seg.tokens,
         confidence |-> confidence]

RECURSIVE AlignLoop(_, _, _)
AlignLoop(rest, d, acc) ==
    IF rest = <<>> THEN acc
    ELSE AlignLoop(Tail(rest), d, Append(acc, AlignOne(Head(rest), d)))

Reverse(s) == [i \in 1..Len(s) |-> s[Len(s) + 1 - i]]

\* an aligner that returns its segments last first
AlignReversed(ws, d) == Reverse(AlignLoop(ws, d, <<>>))

\* line 33-70: the value returned when no division fails
align_whisper_segments_with_speakers(ws, d) == AlignLoop(ws, d, <<>>)

\* the call raises when a division of line 51 has a zero denominator
AlignRaises(ws, d) ==
    \E i \in 1..Len(ws) : AlignOne(ws[i], d).confidence[2] = 0

----------------------------------------------------------------------------
(* Inputs of the aligner: transcript segments in any order.  The i-th segment
   carries id i-1, the i-th word and its own tokens list, reference i. *)

TranscriptInputs(T, n) ==
    UNION {{[i \in 1..k |-> [id     |-> i - 1,
                             start  |-> ivs[i][1],
                             end    |-> ivs[i][2],
                             text   |-> Words[i],
                             tokens |-> i]] : ivs \in [1..k -> Intervals(T)]} : k \in 0..n}

HeapOf(n) == [i \in 1..n |-> <<i>>]

InitAlign ==
    /\ pc = "call"
    /\ diarization \in DiarizationInputs(0..MaxTime, MaxTurns)
    /\ whisper_segments \in TranscriptInputs(0..MaxTime, MaxSegs)
    /\ heap0 = HeapOf(Len(whisper_segments))
    /\ heap = heap0
    /\ gap_threshold = GAP_THRESHOLD_DEFAULT
    /\ normalized = NoValue
    /\ runs = NoValue
    /\ aligned = NoValue
    /\ error = "none"
    /\ segments = NoValue
    /\ turns = NoValue
    /\ transcription = NoValue
    /\ merge_speakers = FALSE
    /\ result = NoValue
    /\ diarization_after = NoValue
    /\ min_duration_arg = MIN_DURATION_DEFAULT
    /\ overlap_regions = NoValue
    /\ plain = NoValue
    /\ ServerIdle

CallAlign ==
    /\ pc = "call"
    /\ pc' = "done"
    /\ IF AlignRaises(whisper_segments, diarization)
       THEN error' = "ZeroDivisionError" /\ aligned' = NoValue
       ELSE /\ error' = "none"
            /\ aligned' = align_whisper_segments_with_speakers(whisper_segments, diarization)
    /\ UNCHANGED <<diarization, gap_threshold, normalized, runs, whisper_segments, heap0,
                   heap, segments, turns, transcription, merge_speakers, result,
                   diarization_after, min_duration_arg, overlap_regions, plain>>
    /\ UNCHANGED serverVars

NextAlign == CallAlign

SpecAlign == InitAlign /\ [][NextAlign]_vars

----------------------------------------------------------------------------
(* merge_consecutive_speaker_segments, src/merge.py:73-95 *)

\* a text fold that forgets the separating space
JoinTextNoSpace(text, more) == text \o more

\* line 85
JoinText(text, more) == text \o " " \o more

\* a confidence fold that forgets to halve the sum
NewConfidenceSum(confidence, more) ==
    Reduced(<<confidence[1] * more[2] + more[1] * confidence[2], confidence[2] * more[2]>>)

\* line 88: (current["confidence"] + seg["confidence"]) / 2
NewConfidence(confidence, more) ==
    Reduced(<<confidence[1] * more[2] + more[1] * confidence[2], 2 * confidence[2] * more[2]>>)

\* line 79-80, 91-92: dict.copy() is shallow, so the copy's tokens is the very
\* list of the segment copied; whisper_ids is a new list.
CopyWithIds(seg) ==
    [id          |-> seg.id,
     speaker     |-> seg.speaker,
     start       |-> seg.start,
     end         |-> seg["end"],
     text        |-> seg.text,
     tokens      |-> seg.tokens,
     confidence  |-> seg.confidence,
     whisper_ids |-> <<seg.id>>]

\* line 82-92: one iteration of the loop; st.heap holds the tokens lists
ConsecutiveStep(st, seg) ==
    IF seg.speaker = st.current.speaker
    THEN [current |-> [st.current EXCEPT
                          !["end"]      = seg["end"],
                          !.text        = JoinText(@, seg.text),
                          !.whisper_ids = Append(@, seg.id),
                          !.confidence  = NewConfidence(@, seg.confidence)],
          merged  |-> st.merged,
          heap    |-> [st.heap EXCEPT ![st.current.tokens] = @ \o st.heap[seg.tokens]]]
    ELSE [current |-> CopyWithIds(seg),
          merged  |-> Append(st.merged, st.current),
          heap    |-> st.heap]

RECURSIVE ConsecutiveLoop(_, _)
ConsecutiveLoop(st, rest) ==
    IF rest = <<>> THEN st
    ELSE ConsecutiveLoop(ConsecutiveStep(st, Head(rest)), Tail(rest))

\* line 75-95: the returned list and the tokens lists after the call
ConsecutiveRun(segs, h) ==
    IF segs = <<>> THEN [merged |-> <<>>, heap |-> h]
    ELSE LET st == ConsecutiveLoop([current |-> CopyWithIds(segs[1]), merged |-> <<>>,
                                    heap |-> h], Tail(segs))
         IN  [merged |-> Append(st.merged, st.current), heap |-> st.heap]

merge_consecutive_speaker_segments(segs, h) == ConsecutiveRun(segs, h).merged

----------------------------------------------------------------------------
(* Specification of the turn merger alone.  The i-th aligned segment has id
   i-1, the i-th word, the interval [2(i-1), 2i-1] and its own tokens list. *)

Confidences == {<<1, 10>>, <<5, 10>>, <<9, 10>>}

AlignedInputs(n) ==
    UNION {{[i \in 1..k |-> [id         |-> i - 1,
                             speaker    |-> sp[i],
                             start      |-> 2 * (i - 1),
                             end        |-> 2 * i - 1,
                             text       |-> Words[i],
                             tokens     |-> i,
                             confidence |-> cf[i]]] :
                sp \in [1..k -> {"SPEAKER_00", UNKNOWN}], cf \in [1..k -> Confidences]} :
           k \in 0..n}

InitMergeTurns ==
    /\ pc = "call"
    /\ segments \in AlignedInputs(MergeMaxSegs)
    /\ heap0 \in [1..Len(segments) -> {<<>>, <<7>>}]
    /\ heap = heap0
    /\ diarization = NoValue
    /\ gap_threshold = GAP_THRESHOLD_DEFAULT
    /\ normalized = NoValue
    /\ runs = NoValue
    /\ whisper_segments = NoValue
    /\ aligned = NoValue
    /\ error = "none"
    /\ turns = NoValue
    /\ transcription = NoValue
    /\ merge_speakers = TRUE
    /\ result = NoValue
    /\ diarization_after = NoValue
    /\ min_duration_arg = MIN_DURATION_DEFAULT
    /\ overlap_regions = NoValue
    /\ plain = NoValue
    /\ ServerIdle

CallMergeConsecutive ==
    /\ pc = "call"
    /\ pc' = "done"
    /\ turns' = merge_consecutive_speaker_segments(segments, heap)
    /\ heap' = ConsecutiveRun(segments, heap).heap
    /\ UNCHANGED <<diarization, gap_threshold, normalized, runs, whisper_segments, heap0,
                   aligned, error, segments, transcription, merge_speakers, result,
                   diarization_after, min_duration_arg, overlap_regions, plain>>
    /\ UNCHANGED serverVars

NextMergeTurns == CallMergeConsecutive

SpecMergeTurns == InitMergeTurns /\ [][NextMergeTurns]_vars

----------------------------------------------------------------------------
(* find_overlaps, src/merge.py:98-118 *)

\* Python orders strings by code point: capitals come before lower case.
StringOrder == <<"SPEAKER_00", "SPEAKER_01", "unknown">>
Rank(s) == CHOOSE i \in 1..Len(StringOrder) : StringOrder[i] = s

\* sorted(list(set(...))): the members of a set of strings in ascending order
RECURSIVE SortedList(_)
SortedList(S) ==
    IF S = {} THEN <<>>
    ELSE LET least == CHOOSE s \in S : \A t \in S : Rank(s) <= Rank(t)
         IN  <<least>> \o SortedList(S \ {least})

\* a comparison that lets an overlap of exactly min_duration through
LongEnoughOrEqual(length, min_duration) == length >= min_duration

\* line 108: overlap_end - overlap_start > min_duration
LongEnough(length, min_duration) == length > min_duration

\* line 104-116: the body of the inner loop, appending to overlaps
OverlapsPair(overlaps, seg1, seg2, min_duration) ==
    LET overlap_start == Max(seg1.start, seg2.start)
        overlap_end   == Min(seg1["end"], seg2["end"])
    IN  IF LongEnough(overlap_end - overlap_start, min_duration)
        THEN Append(overlaps, [start    |-> overlap_start,
                               end      |-> overlap_end,
                               speakers |-> SortedList({seg1.speaker, seg2.speaker})])
        ELSE overlaps

\* line 102-116: the two nested loops, i over the turns and j over those after i
RECURSIVE OverlapsLoop(_, _, _, _, _)
OverlapsLoop(d, i, j, overlaps, min_duration) ==
    IF i > Len(d) THEN overlaps
    ELSE IF j > Len(d) THEN OverlapsLoop(d, i + 1, i + 2, overlaps, min_duration)
    ELSE OverlapsLoop(d, i, j + 1, OverlapsPair(overlaps, d[i], d[j], min_duration),
                      min_duration)

find_overlaps(d, min_duration) == OverlapsLoop(d, 1, 2, <<>>, min_duration)

----------------------------------------------------------------------------
(* Specification of the overlap detector alone, on turn lists sorted by start
   as the normalizer returns them. *)

InitOverlaps ==
    /\ pc = "call"
    /\ diarization \in DiarizationInputs(0..NormMaxTime, NormMaxTurns)
    /\ min_duration_arg \in 0..MaxGap
    /\ overlap_regions = NoValue
    /\ gap_threshold = GAP_THRESHOLD_DEFAULT
    /\ normalized = NoValue
    /\ runs = NoValue
    /\ whisper_segments = NoValue
    /\ heap0 = NoValue
    /\ heap = NoValue
    /\ aligned = NoValue
    /\ error = "none"
    /\ segments = NoValue
    /\ turns = NoValue
    /\ transcription = NoValue
    /\ merge_speakers = FALSE
    /\ result = NoValue
    /\ diarization_after = NoValue
    /\ plain = NoValue
    /\ ServerIdle

CallFindOverlaps ==
    /\ pc = "call"
    /\ pc' = "done"
    /\ overlap_regions' = find_overlaps(diarization, min_duration_arg)
    /\ UNCHANGED <<diarization, gap_threshold, normalized, runs, whisper_segments, heap0,
                   heap, aligned, error, segments, turns, transcription, merge_speakers,
                   result, diarization_after, min_duration_arg, plain>>
    /\ UNCHANGED serverVars

NextOverlaps == CallFindOverlaps

SpecOverlaps == InitOverlaps /\ [][NextOverlaps]_vars

----------------------------------------------------------------------------
(* process_transcription, src/merge.py:121-181 *)

\* dict.get(key, default)
Get(dict, key, default) == IF key \in DOMAIN dict THEN dict[key] ELSE default

\* line 156: speaker.replace("SPEAKER_", "speaker_").lower()
Label(speaker) ==
    CASE speaker = "SPEAKER_00" -> "speaker_00"
      [] speaker = "SPEAKER_01" -> "speaker_01"
      [] OTHER -> speaker

\* a registry that keeps the placeholder speaker
SpeakerSetWithUnknown(segs) == {segs[k].speaker : k \in 1..Len(segs)}

\* line 144-146: set(seg["speaker"] for seg in segments if seg["speaker"] != "unknown")
SpeakerSet(segs) == {segs[k].speaker : k \in 1..Len(segs)} \ {UNKNOWN}

RECURSIVE SumDurations(_, _)
SumDurations(segs, only_unknown) ==
    IF segs = <<>> THEN 0
    ELSE (IF only_unknown /\ Head(segs).speaker # UNKNOWN THEN 0
          ELSE Head(segs)["end"] - Head(segs).start)
         + SumDurations(Tail(segs), only_unknown)

\* line 129-181.  The record returned holds what the call computed, the tokens
\* lists after it and the exception it raised, if any: the division of line 51,
\* or that of line 178 in the summary.
ProcessRun(tr, d, merge, h) ==
    LET nd       == merge_nearby_diarization(d, GAP_THRESHOLD_DEFAULT)
        ws       == Get(tr, "segments", <<>>)
        raises   == AlignRaises(ws, nd)
        al       == IF raises THEN <<>> ELSE align_whisper_segments_with_speakers(ws, nd)
        mr       == IF merge THEN ConsecutiveRun(al, h) ELSE [merged |-> al, heap |-> h]
        segs     == mr.merged
        overlaps == find_overlaps(nd, MIN_DURATION_DEFAULT)
        speakers == SortedList(SpeakerSet(segs))
        output   == [metadata |-> [duration      |-> Get(tr, "duration", 0),
                                   language      |-> Get(tr, "language", "unknown"),
                                   original_text |-> Get(tr, "text", "")],
                     speakers |-> [i \in 1..Len(speakers) |->
                                      [key   |-> speakers[i],
                                       label |-> Label(speakers[i]),
                                       color |-> "None"]],
                     segments |-> segs,
                     overlaps |-> overlaps,
                     words    |-> Get(tr, "words", <<>>)]
        total_duration   == SumDurations(segs, FALSE)
        unknown_duration == SumDurations(segs, TRUE)
    IN  [error      |-> IF raises \/ (unknown_duration > 0 /\ total_duration = 0)
                        THEN "ZeroDivisionError" ELSE "none",
         normalized |-> nd,
         aligned    |-> al,
         heap       |-> mr.heap,
         output     |-> output]

process_transcription(tr, d, merge, h) == ProcessRun(tr, d, merge, h).output

----------------------------------------------------------------------------
(* Specification of the orchestrator.  Times are multiples of TimeStep tenths
   of a second, so that gaps on both sides of the default gap_threshold occur. *)

ProcessTimes == {TimeStep * k : k \in 0..MaxTime}

FullTranscript(segs) ==
    [duration |-> TimeStep * MaxTime,
     language |-> "en",
     text     |-> "hello world",
     words    |-> <<[word |-> "hello", start |-> 0, end |-> TimeStep]>>,
     segments |-> segs]

\* a transcript object with every key, with its segments only, or with no key
TranscriptionInputs ==
    {<<>>} \cup UNION {{FullTranscript(segs), [segments |-> segs]} :
                        segs \in TranscriptInputs(ProcessTimes, MaxSegs)}

InitProcess ==
    /\ pc = "call"
    /\ diarization \in DiarizationInputs(ProcessTimes, NormMaxTurns)
    /\ transcription \in TranscriptionInputs
    /\ merge_speakers \in BOOLEAN
    /\ whisper_segments = Get(transcription, "segments", <<>>)
    /\ heap0 = HeapOf(Len(whisper_segments))
    /\ heap = heap0
    /\ gap_threshold = GAP_THRESHOLD_DEFAULT
    /\ normalized = NoValue
    /\ runs = NoValue
    /\ aligned = NoValue
    /\ error = "none"
    /\ segments = NoValue
    /\ turns = NoValue
    /\ result = NoValue
    /\ diarization_after = NoValue
    /\ min_duration_arg = MIN_DURATION_DEFAULT
    /\ overlap_regions = NoValue
    /\ plain = NoValue
    /\ ServerIdle

CallProcess ==
    /\ pc = "call"
    /\ pc' = "done"
    /\ LET run == ProcessRun(transcription, diarization, merge_speakers, heap)
       IN  /\ error' = run.error
           /\ normalized' = run.normalized
           /\ aligned' = run.aligned
           /\ heap' = run.heap
           /\ result' = IF run.error = "none"
                        THEN process_transcription(transcription, diarization,
                                                   merge_speakers, heap)
                        ELSE NoValue
    /\ runs' = NearbyRun(diarization, GAP_THRESHOLD_DEFAULT).runs
    /\ diarization_after' = NearbyRun(diarization, GAP_THRESHOLD_DEFAULT).input
    /\ UNCHANGED <<diarization, gap_threshold, whisper_segments, heap0, segments, turns,
                   transcription, merge_speakers,
                   min_duration_arg, overlap_regions, plain>>
    /\ UNCHANGED serverVars

NextProcess == CallProcess

SpecProcess == InitProcess /\ [][NextProcess]_vars

----------------------------------------------------------------------------
(* Specification of the orchestrator on short recordings: two time steps, at
   most MaxSegs transcript segments in any order, zero-length ones included,
   and at most MaxTurns turns of positive duration.  The transcript object has
   every key or none. *)

ShortTimes == {0, TimeStep, 2 * TimeStep}

Positive(d) == \A k \in 1..Len(d) : d[k].start < d[k]["end"]

ShortTranscripts ==
    {<<>>} \cup {FullTranscript(segs) : segs \in TranscriptInputs(ShortTimes, MaxSegs)}

ShortDiarizations == {d \in DiarizationInputs(ShortTimes, MaxTurns) : Positive(d)}

InitProcessShort ==
    /\ pc = "call"
    /\ diarization \in ShortDiarizations
    /\ transcription \in ShortTranscripts
    /\ merge_speakers \in BOOLEAN
    /\ whisper_segments = Get(transcription, "segments", <<>>)
    /\ heap0 = HeapOf(Len(whisper_segments))
    /\ heap = heap0
    /\ gap_threshold = GAP_THRESHOLD_DEFAULT
    /\ normalized = NoValue
    /\ runs = NoValue
    /\ aligned = NoValue
    /\ error = "none"
    /\ segments = NoValue
    /\ turns = NoValue
    /\ result = NoValue
    /\ diarization_after = NoValue
    /\ min_duration_arg = MIN_DURATION_DEFAULT
    /\ overlap_regions = NoValue
    /\ plain = NoValue
    /\ ServerIdle

SpecProcessShort == InitProcessShort /\ [][NextProcess]_vars

----------------------------------------------------------------------------
(* Specification of the orchestrator called twice on equal inputs, first with
   merge_speakers = True and then with merge_speakers = False.  Each call gets
   its own copy of the transcript, so the second starts from heap0.  Segments
   and turns have positive duration here; the segments come in any order. *)

ModesTimes(n) == {TimeStep * k : k \in 0..n}

ModesTranscripts(T, n) ==
    {FullTranscript(segs) : segs \in {ws \in TranscriptInputs(T, n) : Positive(ws)}}

ModesDiarizations(T, n) == {d \in DiarizationInputs(T, n) : Positive(d)}

InitProcessModes ==
    /\ pc = "call"
    /\ diarization \in ModesDiarizations(ModesTimes(ModesMaxTime), ModesMaxTurns)
    /\ transcription \in ModesTranscripts(ModesTimes(ModesMaxTime), ModesMaxSegs)
    /\ merge_speakers = TRUE
    /\ whisper_segments = Get(transcription, "segments", <<>>)
    /\ heap0 = HeapOf(Len(whisper_segments))
    /\ heap = heap0
    /\ gap_threshold = GAP_THRESHOLD_DEFAULT
    /\ normalized = NoValue
    /\ runs = NoValue
    /\ aligned = NoValue
    /\ error = "none"
    /\ segments = NoValue
    /\ turns = NoValue
    /\ result = NoValue
    /\ diarization_after = NoValue
    /\ min_duration_arg = MIN_DURATION_DEFAULT
    /\ overlap_regions = NoValue
    /\ plain = NoValue
    /\ ServerIdle

CallWithMerge ==
    /\ pc = "call"
    /\ pc' = "merged"
    /\ \E run \in {ProcessRun(transcription, diarization, TRUE, heap0)} :
          /\ error' = run.error
          /\ normalized' = run.normalized
          /\ aligned' = run.aligned
          /\ heap' = run.heap
          /\ result' = IF run.error = "none" THEN run.output ELSE NoValue
    /\ UNCHANGED <<diarization, gap_threshold, runs, whisper_segments, heap0, segments,
                   turns, transcription, merge_speakers, diarization_after,
                   min_duration_arg, overlap_regions, plain>>
    /\ UNCHANGED serverVars

CallWithoutMerge ==
    /\ pc = "merged"
    /\ pc' = "done"
    /\ \E run \in {ProcessRun(transcription, diarization, FALSE, heap0)} :
          plain' = [error  |-> run.error,
                    output |-> IF run.error = "none" THEN run.output ELSE NoValue]
    /\ UNCHANGED <<diarization, gap_threshold, normalized, runs, whisper_segments, heap0,
                   heap, aligned, error, segments, turns, transcription, merge_speakers,
                   result, diarization_after, min_duration_arg, overlap_regions>>
    /\ UNCHANGED serverVars

NextProcessModes == CallWithMerge \/ CallWithoutMerge

SpecProcessModes == InitProcessModes /\ [][NextProcessModes]_vars

----------------------------------------------------------------------------
(* ensure_whisper_server, src/ai/main.py:14-42.  server_pc names the statement
   about to run.  What pgrep finds, whether uvicorn can be started and whether
   a readiness poll succeeds are outcomes of the environment. *)

\* the state of the reconciliation engine
mergeVars == <<pc, diarization, gap_threshold, normalized, runs, whisper_segments,
               heap0, heap, aligned, error, segments, turns, transcription,
               merge_speakers, result, diarization_after, min_duration_arg,
               overlap_regions, plain>>

\* port defaults to 8000 (line 14); process_audio passes whisper_port
Ports == {8000, 8001, 8080}

\* a loop that goes round once more than the range
LoopContinuesOnceMore(n) == n <= RANGE

\* line 33: for i in range(10) has another iteration to run
LoopContinues(n) == n < RANGE

InitServer ==
    /\ server_pc = "pgrep"
    /\ port \in Ports
    /\ attempt = 0
    /\ polls = 0
    /\ slept = 0
    /\ message = ""
    /\ pc = "idle"
    /\ diarization = NoValue
    /\ gap_threshold = GAP_THRESHOLD_DEFAULT
    /\ normalized = NoValue
    /\ runs = NoValue
    /\ whisper_segments = NoValue
    /\ heap0 = NoValue
    /\ heap = NoValue
    /\ aligned = NoValue
    /\ error = "none"
    /\ segments = NoValue
    /\ turns = NoValue
    /\ transcription = NoValue
    /\ merge_speakers = FALSE
    /\ result = NoValue
    /\ diarization_after = NoValue
    /\ min_duration_arg = MIN_DURATION_DEFAULT
    /\ overlap_regions = NoValue
    /\ plain = NoValue

\* line 17-20: pgrep finds a uvicorn process for the port
PgrepFinds ==
    /\ server_pc = "pgrep"
    /\ server_pc' = "list"
    /\ message' = "whisper server already running"
    /\ UNCHANGED <<port, attempt, polls, slept>>
    /\ UNCHANGED mergeVars

\* line 21-23: the models are listed and printed, and the function returns
ListReturns ==
    /\ server_pc = "list"
    /\ server_pc' = "returned"
    /\ message' = "models"
    /\ UNCHANGED <<port, attempt, polls, slept>>
    /\ UNCHANGED mergeVars

\* line 22: the request fails outside any try block
ListRaises ==
    /\ server_pc = "list"
    /\ server_pc' = "raised"
    /\ UNCHANGED <<port, attempt, polls, slept, message>>
    /\ UNCHANGED mergeVars

\* line 17-25: pgrep finds no such process
PgrepFindsNothing ==
    /\ server_pc = "pgrep"
    /\ server_pc' = "popen"
    /\ message' = "starting whisper server"
    /\ UNCHANGED <<port, attempt, polls, slept>>
    /\ UNCHANGED mergeVars

\* line 26-33: uvicorn is started and the loop begins with i = 0
PopenStarts ==
    /\ server_pc = "popen"
    /\ server_pc' = "poll"
    /\ attempt' = 0
    /\ UNCHANGED <<port, polls, slept, message>>
    /\ UNCHANGED mergeVars

\* line 26: uvicorn cannot be executed
PopenRaises ==
    /\ server_pc = "popen"
    /\ server_pc' = "raised"
    /\ UNCHANGED <<port, attempt, polls, slept, message>>
    /\ UNCHANGED mergeVars

\* line 34-38: the poll succeeds
PollSucceeds ==
    /\ server_pc = "poll"
    /\ server_pc' = "returned"
    /\ polls' = polls + 1
    /\ message' = "server ready"
    /\ UNCHANGED <<port, attempt, slept>>
    /\ UNCHANGED mergeVars

\* line 34-39: the poll raises and the bare except catches it
PollFails ==
    /\ server_pc = "poll"
    /\ server_pc' = "sleep"
    /\ polls' = polls + 1
    /\ UNCHANGED <<port, attempt, slept, message>>
    /\ UNCHANGED mergeVars

\* line 40, 33: the wait, then the next iteration or the end of the loop
Sleep ==
    /\ server_pc = "sleep"
    /\ slept' = slept + SLEEP_SECONDS
    /\ attempt' = attempt + 1
    /\ server_pc' = IF LoopContinues(attempt + 1) THEN "poll" ELSE "warn"
    /\ UNCHANGED <<port, polls, message>>
    /\ UNCHANGED mergeVars

\* line 42: the warning, and the function returns
Warn ==
    /\ server_pc = "warn"
    /\ server_pc' = "returned"
    /\ message' = "warning: server might not be ready yet"
    /\ UNCHANGED <<port, attempt, polls, slept>>
    /\ UNCHANGED mergeVars

NextServer ==
    \/ PgrepFinds
    \/ ListReturns
    \/ ListRaises
    \/ PgrepFindsNothing
    \/ PopenStarts
    \/ PopenRaises
    \/ PollSucceeds
    \/ PollFails
    \/ Sleep
    \/ Warn

SpecServer == InitServer /\ [][NextServer]_vars

\* The interpreter goes on to the next statement: each call of the function
\* (subprocess.run, Popen, the request with the client's timeout, time.sleep)
\* comes back or raises.
SpecServerLive == SpecServer /\ WF_vars(NextServer)

----------------------------------------------------------------------------
(* Properties of the normalizer *)

RECURSIVE SumTo(_, _)
SumTo(s, k) == IF k = 0 THEN 0 ELSE s[k] + SumTo(s, k - 1)

\* the input positions folded into the k-th returned turn
RunOf(k) == (SumTo(runs, k - 1) + 1)..SumTo(runs, k)

\* the returned turn that input position i went into
GroupOf(i) == CHOOSE k \in 1..Len(runs) : i \in RunOf(k)

\* C2: every returned turn spans the union of the input turns folded into it:
\* its start is their smallest start and its end is their largest end.
C2_MergedIsUnion ==
    pc = "done" =>
        \A k \in 1..Len(normalized) :
            /\ \E i \in RunOf(k) : normalized[k].start = diarization[i].start
            /\ \A i \in RunOf(k) : normalized[k].start <= diarization[i].start
            /\ \E i \in RunOf(k) : normalized[k]["end"] = diarization[i]["end"]
            /\ \A i \in RunOf(k) : normalized[k]["end"] >= diarization[i]["end"]

\* C8: two turns adjacent in the input end up in the same returned turn exactly
\* when they have the same speaker and the gap between them, measured on the two
\* input turns, is strictly below gap_threshold.
C8_FoldIffSameSpeakerSmallGap ==
    pc = "done" =>
        \A i \in 1..(Len(diarization) - 1) :
            (GroupOf(i) = GroupOf(i + 1))
                <=> (/\ diarization[i + 1].speaker = diarization[i].speaker
                     /\ diarization[i + 1].start - diarization[i]["end"] < gap_threshold)

\* C8 witness: a fold onto a nested turn shortened the accumulator, and the next
\* turn of the same speaker, too far from the nested turn, was not folded
\* although it lies within gap_threshold of the first turn's end.
C8_Witness ==
    /\ pc = "done"
    /\ \E i \in 1..(Len(diarization) - 2) :
        /\ GroupOf(i) = GroupOf(i + 1)
        /\ diarization[i + 1]["end"] < diarization[i]["end"]
        /\ diarization[i + 2].speaker = diarization[i + 1].speaker
        /\ GroupOf(i + 2) # GroupOf(i + 1)
        /\ diarization[i + 2].start - diarization[i]["end"] < gap_threshold

\* C16: on an input sorted by start the returned list is sorted by start, is
\* no longer than the input, and its turns take their start and speaker from
\* input turns at increasing positions.
C16_SortedSubsequenceOfStarts ==
    pc = "done" =>
        /\ SortedByStart(normalized)
        /\ Len(normalized) <= Len(diarization)
        /\ \E f \in [1..Len(normalized) -> 1..Len(diarization)] :
              /\ \A k \in 1..(Len(normalized) - 1) : f[k] < f[k + 1]
              /\ \A k \in 1..Len(normalized) :
                    /\ normalized[k].start = diarization[f[k]].start
                    /\ normalized[k].speaker = diarization[f[k]].speaker

\* C16 witness: three turns came back as two, one of them a fold of two turns.
C16_Witness ==
    /\ pc = "done"
    /\ Len(diarization) = 3
    /\ Len(normalized) = 2
    /\ normalized[1].speaker # normalized[2].speaker
    /\ normalized[1].start < normalized[2].start

\* C17: the call leaves the caller's list as it was: every turn has the start,
\* end and speaker it had before, also a turn whose copy a fold extended.
C17_InputNotMutated ==
    pc = "done" => diarization_after = diarization

\* C17 witness: the first turn was folded with the next one and the returned
\* turn ends elsewhere than the first input turn does.
C17_Witness ==
    /\ pc = "done"
    /\ Len(diarization) >= 2
    /\ runs[1] >= 2
    /\ normalized[1]["end"] # diarization[1]["end"]
    /\ diarization_after[1]["end"] = diarization[1]["end"]

\* C18: normalizing the returned list again with the same gap_threshold gives
\* it back unchanged: no two consecutive returned turns have the same speaker
\* and a gap strictly below gap_threshold.
C18_Idempotent ==
    pc = "done" =>
        /\ merge_nearby_diarization(normalized, gap_threshold) = normalized
        /\ \A k \in 1..(Len(normalized) - 1) :
              ~(/\ normalized[k + 1].speaker = normalized[k].speaker
                /\ normalized[k + 1].start - normalized[k]["end"] < gap_threshold)

\* C18 witness: after a fold, the next turn of the same speaker stayed apart,
\* at gap_threshold or more from the end of the folded turn.
C18_Witness ==
    /\ pc = "done"
    /\ Len(normalized) = 2
    /\ runs[1] = 2
    /\ normalized[2].speaker = normalized[1].speaker
    /\ normalized[2].start - normalized[1]["end"] >= gap_threshold

----------------------------------------------------------------------------
(* Properties of the aligner *)

\* the overlap of a segment and a turn, as the aligner's contract states it
OverlapLen(seg, turn) ==
    Max(0, Min(seg["end"], turn["end"]) - Max(seg.start, turn.start))

RECURSIVE TotalOverlap(_, _, _, _)
TotalOverlap(seg, d, s, k) ==
    IF k = 0 THEN 0
    ELSE (IF d[k].speaker = s THEN OverlapLen(seg, d[k]) ELSE 0) + TotalOverlap(seg, d, s, k - 1)

FracEq(a, b) == a[2] # 0 /\ b[2] # 0 /\ a[1] * b[2] = b[1] * a[2]

\* C5: a transcript segment whose start equals its end never makes the aligner
\* divide by zero; it is returned with speaker "unknown" and confidence 0.0.
C5_ZeroDurationIsUnknown ==
    pc = "done" =>
        \A i \in 1..Len(whisper_segments) :
            whisper_segments[i].start = whisper_segments[i]["end"] =>
                /\ error = "none"
                /\ aligned[i].speaker = UNKNOWN
                /\ aligned[i].confidence = ZERO

\* C5 witness: a zero-duration segment lying inside a diarization turn was aligned.
C5_Witness ==
    /\ pc = "done"
    /\ error = "none"
    /\ \E i \in 1..Len(whisper_segments) : \E k \in 1..Len(diarization) :
        /\ whisper_segments[i].start = whisper_segments[i]["end"]
        /\ diarization[k].start <= whisper_segments[i].start
        /\ whisper_segments[i].start <= diarization[k]["end"]
        /\ aligned[i].speaker = UNKNOWN

C7_OnePerSegmentInOrder ==
    (pc = "done" /\ error = "none") =>
        /\ Len(aligned) = Len(whisper_segments)
        /\ \A i \in 1..Len(whisper_segments) :
            /\ aligned[i].id = whisper_segments[i].id
            /\ aligned[i].start = whisper_segments[i].start
            /\ aligned[i]["end"] = whisper_segments[i]["end"]
            /\ aligned[i].text = whisper_segments[i].text

\* C7 witness: two transcript segments that are not in time order were aligned.
C7_Witness ==
    /\ pc = "done"
    /\ error = "none"
    /\ Len(aligned) = 2
    /\ whisper_segments[1].start > whisper_segments[2].start

----------------------------------------------------------------------------
(* Properties of the turn merger *)

\* the input positions of the segments folded into the k-th returned turn
TurnLens == [k \in 1..Len(turns) |-> Len(turns[k].whisper_ids)]
TurnFirst(k) == SumTo(TurnLens, k - 1) + 1
TurnLast(k) == SumTo(TurnLens, k)

RECURSIVE JoinedText(_, _)
JoinedText(first, last) ==
    IF last = first THEN segments[first].text
    ELSE JoinedText(first, last - 1) \o " " \o segments[last].text

RECURSIVE JoinedTokens(_, _)
JoinedTokens(first, last) ==
    IF last < first THEN <<>>
    ELSE JoinedTokens(first, last - 1) \o heap0[segments[last].tokens]

\* C9: the returned turns are the maximal runs of consecutive segments with the
\* same speaker, in order; a turn's whisper_ids are its run's ids, its start the
\* first segment's start, its end the last segment's end, its text the run's
\* texts joined by single spaces and its tokens the run's tokens concatenated.
C9_TurnsAreMaximalRuns ==
    pc = "done" =>
        /\ SumTo(TurnLens, Len(turns)) = Len(segments)
        /\ \A k \in 1..Len(turns) :
            LET first == TurnFirst(k)
                last  == TurnLast(k)
            IN  /\ first <= last
                /\ turns[k].whisper_ids = [j \in 1..(last - first + 1) |-> segments[first + j - 1].id]
                /\ \A i \in first..last : segments[i].speaker = turns[k].speaker
                /\ turns[k].start = segments[first].start
                /\ turns[k]["end"] = segments[last]["end"]
                /\ turns[k].text = JoinedText(first, last)
                /\ heap[turns[k].tokens] = JoinedTokens(first, last)
        /\ \A k \in 1..(Len(turns) - 1) : turns[k].speaker # turns[k + 1].speaker

\* C9 witness: a run of two segments followed by a run of one was merged.
C9_Witness ==
    /\ pc = "done"
    /\ Len(segments) = 3
    /\ Len(turns) = 2
    /\ turns[1].whisper_ids = <<0, 1>>
    /\ turns[2].whisper_ids = <<2>>
    /\ heap0[1] # <<>>
    /\ heap0[2] # <<>>

FracHalfSum(a, b) == Reduced(<<a[1] * b[2] + b[1] * a[2], 2 * (a[2] * b[2])>>)

\* a(first) = c(first), a(i) = (a(i-1) + c(i)) / 2
RECURSIVE Recurrence(_, _)
Recurrence(first, i) ==
    IF i = first THEN segments[first].confidence
    ELSE FracHalfSum(Recurrence(first, i - 1), segments[i].confidence)

RECURSIVE ConfidenceSum(_, _)
ConfidenceSum(first, i) ==
    IF i < first THEN <<0, 1>>
    ELSE LET a == ConfidenceSum(first, i - 1)
             b == segments[i].confidence
         IN  Reduced(<<a[1] * b[2] + b[1] * a[2], a[2] * b[2]>>)

ArithmeticMean(first, last) ==
    LET total == ConfidenceSum(first, last)
    IN  <<total[1], total[2] * (last - first + 1)>>

\* C10: a returned turn's confidence is the left-to-right recurrence over its
\* run's confidences; confidences 0.9, 0.1, 0.5 give 0.5.
C10_ConfidenceIsRecurrence ==
    pc = "done" =>
        \A k \in 1..Len(turns) :
            /\ FracEq(turns[k].confidence, Recurrence(TurnFirst(k), TurnLast(k)))
            /\ (/\ TurnLens[k] = 3
                /\ segments[TurnFirst(k)].confidence = <<9, 10>>
                /\ segments[TurnFirst(k) + 1].confidence = <<1, 10>>
                /\ segments[TurnLast(k)].confidence = <<5, 10>>)
                    => FracEq(turns[k].confidence, <<5, 10>>)

\* C10 witness: a run of three segments was folded into a turn whose confidence
\* is not the arithmetic mean of the three.
C10_Witness ==
    /\ pc = "done"
    /\ \E k \in 1..Len(turns) :
        /\ TurnLens[k] = 3
        /\ ~FracEq(turns[k].confidence, ArithmeticMean(TurnFirst(k), TurnLast(k)))

----------------------------------------------------------------------------
(* Properties of the orchestrator *)

\* C1: every aligned segment has a confidence between 0 and 1: the overlap
\* accumulated for the winning speaker never exceeds the segment's duration.
C1_ConfidenceInUnitInterval ==
    (pc = "done" /\ error = "none") =>
        \A i \in 1..Len(aligned) :
            /\ aligned[i].confidence[2] > 0
            /\ 0 <= aligned[i].confidence[1]
            /\ aligned[i].confidence[1] <= aligned[i].confidence[2]

\* C3: merging the turns leaves every transcript segment as the caller passed
\* it: its tokens list holds the same tokens after the call as before.
C3_InputTokensUntouched ==
    (pc = "done" /\ merge_speakers) =>
        \A i \in 1..Len(whisper_segments) :
            heap[whisper_segments[i].tokens] = heap0[whisper_segments[i].tokens]

\* C4: every overlap region returned names its speakers in ascending order,
\* without duplicates, and names at least two of them.
C4_OverlapHasTwoSpeakers ==
    (pc = "done" /\ error = "none") =>
        \A k \in 1..Len(result.overlaps) :
            LET sp == result.overlaps[k].speakers
            IN  /\ \A i \in 1..(Len(sp) - 1) : Rank(sp[i]) < Rank(sp[i + 1])
                /\ Len(sp) >= 2

----------------------------------------------------------------------------
(* Properties of the overlap detector *)

\* the length of the time two turns share, negative when they are apart
PairOverlap(a, b) == Min(a["end"], b["end"]) - Max(a.start, b.start)

\* the pairs of positions i < j whose turns share more than min_duration_arg
LongPairs ==
    {p \in (1..Len(diarization)) \X (1..Len(diarization)) :
        /\ p[1] < p[2]
        /\ PairOverlap(diarization[p[1]], diarization[p[2]]) > min_duration_arg}

\* p = q, or p comes before q when the pairs are listed by i and then by j
PairBefore(p, q) == p[1] < q[1] \/ (p[1] = q[1] /\ p[2] <= q[2])

\* the place of such a pair among them
PairPlace(p) == Cardinality({q \in LongPairs : PairBefore(q, p)})

----------------------------------------------------------------------------
(* Properties of the two merge modes *)

\* C12: on equal inputs the call with merge_speakers = True and the call with
\* merge_speakers = False both return, with the same overlaps, metadata and
\* words, and the overlaps are those find_overlaps gives for the normalized
\* diarization.
C12_ModesAgreeOutsideSegments ==
    pc = "done" =>
        /\ error = "none"
        /\ plain.error = "none"
        /\ result.overlaps = plain.output.overlaps
        /\ result.metadata = plain.output.metadata
        /\ result.words = plain.output.words
        /\ result.overlaps = find_overlaps(normalized, MIN_DURATION_DEFAULT)

----------------------------------------------------------------------------
(* Properties of the speaker registry *)

\* the keys of the returned speakers mapping, in its order
RegistryKeys == [k \in 1..Len(result.speakers) |-> result.speakers[k].key]

\* C13: the keys of speakers are exactly the speakers other than "unknown" of
\* the returned segments, each once, in ascending string order; "unknown" is
\* not a key, and every key is the speaker of a returned segment and of an
\* input diarization turn.
C13_RegistryIsKnownSpeakersSorted ==
    (pc = "done" /\ error = "none") =>
        /\ {RegistryKeys[k] : k \in 1..Len(RegistryKeys)}
              = {s \in Speakers \cup {UNKNOWN} :
                    /\ s # UNKNOWN
                    /\ \E n \in 1..Len(result.segments) : result.segments[n].speaker = s}
        /\ \A k \in 1..(Len(RegistryKeys) - 1) : Rank(RegistryKeys[k]) < Rank(RegistryKeys[k + 1])
        /\ \A k \in 1..Len(RegistryKeys) :
              /\ RegistryKeys[k] # UNKNOWN
              /\ \E n \in 1..Len(result.segments) : result.segments[n].speaker = RegistryKeys[k]
              /\ \E n \in 1..Len(diarization) : diarization[n].speaker = RegistryKeys[k]

\* C13 witness: a result with an "unknown" segment next to a segment of a
\* diarized speaker, whose registry holds that speaker alone.
C13_Witness ==
    /\ pc = "done"
    /\ error = "none"
    /\ \E n \in 1..Len(result.segments) : result.segments[n].speaker = UNKNOWN
    /\ \E n \in 1..Len(result.segments) : result.segments[n].speaker = "SPEAKER_01"
    /\ Len(diarization) = 2
    /\ RegistryKeys = <<"SPEAKER_01">>

----------------------------------------------------------------------------
(* Properties of the orchestrator on empty collections *)

\* C14: the call does not raise on empty collections.  With no diarization
\* turn, the normalized list is empty, every returned segment has speaker
\* "unknown" and confidence 0, and speakers and overlaps are empty; with no
\* transcript segment, the aligned list and the returned segments are empty,
\* with and without merging.
C14_EmptyInputsGiveEmptyOrUnknown ==
    pc = "done" =>
        /\ (diarization = <<>>) =>
              /\ error = "none"
              /\ normalized = <<>>
              /\ \A n \in 1..Len(result.segments) :
                    /\ result.segments[n].speaker = UNKNOWN
                    /\ result.segments[n].confidence[1] = 0
                    /\ result.segments[n].confidence[2] > 0
              /\ result.speakers = <<>>
              /\ result.overlaps = <<>>
        /\ (whisper_segments = <<>>) =>
              /\ error = "none"
              /\ aligned = <<>>
              /\ result.segments = <<>>

\* C14 witness: two transcript segments and no diarization turn, merged into
\* one "unknown" turn.
C14_Witness ==
    /\ pc = "done"
    /\ diarization = <<>>
    /\ merge_speakers
    /\ Len(whisper_segments) = 2
    /\ error = "none"
    /\ Len(result.segments) = 1
    /\ result.segments[1].speaker = UNKNOWN

----------------------------------------------------------------------------
(* Properties of the aligner's tie-break *)

\* the speakers whose total overlap with the segment is positive and largest
Tied(seg, d) ==
    {s \in Speakers :
        /\ TotalOverlap(seg, d, s, Len(d)) > 0
        /\ \A t \in Speakers : TotalOverlap(seg, d, t, Len(d)) <= TotalOverlap(seg, d, s, Len(d))}

\* the position of the first turn of speaker s that overlaps the segment
FirstOverlapping(seg, d, s) ==
    CHOOSE k \in 1..Len(d) :
        /\ d[k].speaker = s
        /\ OverlapLen(seg, d[k]) > 0
        /\ \A j \in 1..(k - 1) : ~(d[j].speaker = s /\ OverlapLen(seg, d[j]) > 0)

\* the example of a tie: segment [10,20] s with turns (9,15,A) and (15,20,B)
ExampleSegment == [id |-> 0, start |-> 100, end |-> 200, text |-> "hello", tokens |-> 1]
ExampleTurns ==
    <<[start |-> 90, end |-> 150, speaker |-> "SPEAKER_00"],
      [start |-> 150, end |-> 200, speaker |-> "SPEAKER_01"]>>

\* C15: the speaker of an aligned segment is a function of the inputs: among
\* the speakers with the largest total overlap it is the one whose first
\* overlapping turn comes first in the diarization list.  In the example the
\* first speaker is chosen.
C15_TieGoesToFirstOverlapping ==
    (pc = "done" /\ error = "none") =>
        /\ \A n \in 1..Len(whisper_segments) :
              LET seg == whisper_segments[n]
              IN  Tied(seg, diarization) # {} =>
                    /\ aligned[n].speaker \in Tied(seg, diarization)
                    /\ \A t \in Tied(seg, diarization) :
                          FirstOverlapping(seg, diarization, aligned[n].speaker)
                              <= FirstOverlapping(seg, diarization, t)
        /\ AlignOne(ExampleSegment, ExampleTurns).speaker = "SPEAKER_00"

\* C15 witness: two speakers tie on a segment and the one chosen is the one
\* heard first, although the other one sorts before it.
C15_Witness ==
    /\ pc = "done"
    /\ error = "none"
    /\ \E n \in 1..Len(whisper_segments) :
          /\ Cardinality(Tied(whisper_segments[n], diarization)) = 2
          /\ aligned[n].speaker = "SPEAKER_01"

----------------------------------------------------------------------------
(* Properties of ensure_whisper_server *)

\* what holds at every moment of the polling loop
PollingBounded ==
    /\ polls <= RANGE
    /\ (server_pc = "poll") => (polls = attempt /\ slept = polls * SLEEP_SECONDS)
    /\ (server_pc = "sleep") => (polls = attempt + 1 /\ slept = attempt * SLEEP_SECONDS)
    /\ (server_pc = "returned" /\ message = "server ready") =>
          (polls \in 1..RANGE /\ slept = (polls - 1) * SLEEP_SECONDS)
    /\ (server_pc \in {"warn", "returned"} /\ polls = RANGE /\ message # "server ready") =>
          slept = RANGE * SLEEP_SECONDS
    /\ (server_pc = "returned" /\ message = "warning: server might not be ready yet") =>
          polls = RANGE
    /\ (server_pc = "raised") => polls = 0

\* C19: once no server process was found and uvicorn was started, the function
\* polls at most 10 times, waits one second after each failed poll, returns at
\* the first poll that succeeds, never raises, and always comes to return: after
\* 10 failed polls with the warning.
C19_PollingTerminates ==
    /\ []PollingBounded
    /\ (server_pc = "poll") ~> (server_pc = "returned")

\* C19 witness: ten polls failed, ten seconds were slept, and the function
\* returned after printing the warning.
C19_Witness ==
    /\ server_pc = "returned"
    /\ polls = RANGE
    /\ slept = RANGE * SLEEP_SECONDS
    /\ message = "warning: server might not be ready yet"

====
